---- MODULE Spec2Model ----
(***************************************************************************)
(* A model of tap_mongodb/streams.py: CollectionStream.get_records (the    *)
(* ordered _id scan of the INCREMENTAL method and the change-stream loop   *)
(* of the LOG_BASED method) and CollectionStream._increment_stream_state   *)
(* (the bookmark advance).                                                 *)
(*                                                                         *)
(* Strings are sequences of code points, so that Python's str comparison   *)
(* (used by increment_state) and the text form of an ObjectId are computed *)
(* and not assumed.  An Optional value is a tuple of length 0 (None) or 1. *)
(***************************************************************************)
EXTENDS Integers, Sequences, FiniteSets, TLC

VARIABLES
    replication_method,       \* self.replication_method
    is_sorted,                \* self.is_sorted
    state_partitioning_keys,  \* self.state_partitioning_keys (None or a list)
    replication_key,          \* self.replication_key
    config,                   \* self.config: start_date, operation_types
    collection,               \* self._collection: the _id values of its documents
    change_log,               \* the events the change stream can deliver, in order
    state_dict,               \* self.get_context_state(context)
    pc,                       \* where the invocation of get_records stands
    bookmark,                 \* get_records: bookmark
    start_date,               \* get_records: start_date (ObjectId | None)
    results,                  \* get_records: the cursor returned by find().sort()
    idx,                      \* number of documents taken from results
    resume_after,             \* change_stream_options["resume_after"]["_data"]
    cursor,                   \* the change stream: "none", "open", "closed"
    alive,                    \* change_stream.alive
    pos,                      \* number of events of change_log already delivered
    first_pos,                \* pos when the change stream was opened
    has_seen_a_record,        \* get_records: has_seen_a_record
    keep_open,                \* get_records: keep_open
    record,                   \* get_records: record, the result of the last poll
    polled,                   \* try_next has been called in this invocation
    emitted,                  \* the records yielded by this invocation
    run,                      \* 1: first invocation, 2: the one after a restart
    first_run,                \* what the first invocation left: emitted, pc
    raised,                   \* the exception that ended the call, or "none"
    calls                     \* history of the _increment_stream_state calls

vars == << replication_method, is_sorted, state_partitioning_keys, replication_key,
           config, collection, change_log, state_dict, pc, bookmark, start_date,
           results, idx, resume_after, cursor, alive, pos, first_pos, has_seen_a_record,
           keep_open, record, polled, emitted, run, first_run, raised, calls >>

streamVars == << replication_method, is_sorted, state_partitioning_keys,
                 replication_key, config, collection, change_log >>
scanVars == << bookmark, start_date, results, idx >>
watchVars == << resume_after, cursor, alive, pos, first_pos, has_seen_a_record, keep_open,
               record, polled >>

(***************************************************************************)
(* Bounds of the model.                                                    *)
(***************************************************************************)
TsHexLen == 1        \* hex digits of an ObjectId's timestamp (8 in bson)
TailHexLen == 1      \* hex digits after the timestamp (16 in bson)
IdStride == 5        \* the sample identifiers are the multiples of IdStride
MaxIdx == 5          \* ... up to MaxIdx * IdStride
MaxDocs == 3         \* documents in the collection
MaxStartTs == 1      \* configured start_date, in seconds since the epoch
MaxEvents == 3       \* events in the change log
MaxCalls == 3        \* direct calls of _increment_stream_state

(***************************************************************************)
(* Optional values and strings.                                            *)
(***************************************************************************)
None == << >>
Some(x) == << x >>
Get(o) == o[1]

Min(a, b) == IF a <= b THEN a ELSE b

RECURSIVE Pow16(_)
Pow16(n) == IF n = 0 THEN 1 ELSE 16 * Pow16(n - 1)

\* Python: a < b on str (code point by code point, a proper prefix is smaller).
StrLess(a, b) ==
    \E k \in 1..(Min(Len(a), Len(b)) + 1) :
        /\ \A j \in 1..(k - 1) : a[j] = b[j]
        /\ \/ k > Len(a) /\ k <= Len(b)
           \/ k <= Len(a) /\ k <= Len(b) /\ a[k] < b[k]

\* Python: a >= b on str.
StrGE(a, b) == ~StrLess(a, b)

(***************************************************************************)
(* bson.objectid.ObjectId: a 12-byte value, here a number of OidHexLen hex *)
(* digits whose leading TsHexLen digits are the timestamp.                 *)
(***************************************************************************)
OidHexLen == TsHexLen + TailHexLen

\* The lower-case hex digit of d, as a code point ("0" is 48, "a" is 97).
HexChar(d) == IF d < 10 THEN 48 + d ELSE 87 + d

\* The value of a hex digit in either case, -1 for any other code point.
HexVal(c) ==
    IF c >= 48 /\ c <= 57 THEN c - 48
    ELSE IF c >= 97 /\ c <= 102 THEN c - 87
    ELSE IF c >= 65 /\ c <= 70 THEN c - 55
    ELSE -1

\* str(object_id): OidHexLen lower-case hex digits, most significant first.
OidToStr(oid) ==
    [i \in 1..OidHexLen |-> HexChar((oid \div Pow16(OidHexLen - i)) % 16)]

\* ObjectId(s) raises InvalidId unless s is OidHexLen hex digits.
IsValidOid(s) ==
    /\ Len(s) = OidHexLen
    /\ \A i \in 1..Len(s) : HexVal(s[i]) >= 0

RECURSIVE HexNumber(_)
HexNumber(s) ==
    IF Len(s) = 0 THEN 0
    ELSE 16 * HexNumber(SubSeq(s, 1, Len(s) - 1)) + HexVal(s[Len(s)])

\* ObjectId(s) for a valid s.
StrToOid(s) == HexNumber(s)

\* ObjectId.from_datetime(dt): the timestamp followed by zero bytes.
OidFromDatetime(ts) == ts * Pow16(TailHexLen)

(***************************************************************************)
(* The bookmark store and CollectionStream._increment_stream_state.        *)
(*                                                                         *)
(* state_dict holds the bookmark, replication_key_value, and the value     *)
(* kept under progress_markers for a stream that is not treated as sorted. *)
(***************************************************************************)
REPLICATION_INCREMENTAL == "INCREMENTAL"
REPLICATION_LOG_BASED == "LOG_BASED"

EmptyState == [replication_key_value |-> None, progress_markers |-> None]

\* self.check_sorted: the attribute of the base Stream, which the class
\* leaves as it is.
check_sorted == TRUE

\* lines 84-87: the flag handed to increment_state.
TreatAsSorted_Never == FALSE

TreatAsSorted ==
    IF ~is_sorted /\ state_partitioning_keys # None THEN FALSE ELSE is_sorted

\* The position a call with is_sorted = sorted reads and writes.
StoredPosition(sd, sorted) ==
    IF sorted THEN sd.replication_key_value ELSE sd.progress_markers

WritePosition(sd, sorted, value) ==
    IF sorted THEN [sd EXCEPT !.replication_key_value = Some(value)]
    ELSE [sd EXCEPT !.progress_markers = Some(value)]

\* A mutant of increment_state: the comparison the wrong way round.
IncrementState_Reversed(sd, key, latest_record, sorted, check) ==
    LET old == StoredPosition(sd, sorted)
        new == latest_record[key]
    IN  IF old = None \/ ~check \/ StrLess(new, Get(old))
        THEN [state |-> WritePosition(sd, sorted, new), raised |-> "none"]
        ELSE IF sorted
             THEN [state |-> sd, raised |-> "InvalidStreamSortException"]
             ELSE [state |-> sd, raised |-> "none"]

\* A mutant of increment_state: an unsorted stream rejects a smaller value too.
IncrementState_AlwaysRaises(sd, key, latest_record, sorted, check) ==
    LET old == StoredPosition(sd, sorted)
        new == latest_record[key]
    IN  IF old = None \/ ~check \/ StrGE(new, Get(old))
        THEN [state |-> WritePosition(sd, sorted, new), raised |-> "none"]
        ELSE [state |-> sd, raised |-> "InvalidStreamSortException"]

\* lines 88-94: singer_sdk's increment_state(state_dict, replication_key=,
\* latest_record=, is_sorted=, check_sorted=).  The new value is stored when
\* nothing is stored yet, when check_sorted is off or when it is not smaller
\* than the stored one; a smaller value raises for a sorted stream and is
\* dropped for an unsorted one.
IncrementState(sd, key, latest_record, sorted, check) ==
    LET old == StoredPosition(sd, sorted)
        new == latest_record[key]
    IN  IF old = None \/ ~check \/ StrGE(new, Get(old))
        THEN [state |-> WritePosition(sd, sorted, new), raised |-> "none"]
        ELSE IF sorted
             THEN [state |-> sd, raised |-> "InvalidStreamSortException"]
             ELSE [state |-> sd, raised |-> "none"]

\* lines 72-77 and 179-184: the ValueError of an unrecognized replication
\* method, told from the other ValueError by its message.
UnrecognizedMethodError == "ValueError: Unrecognized replication method"

\* lines 80-83: the ValueError of an absent replication key.
MissingKeyError == "ValueError: Could not detect replication key"

\* A mutant of the advance: an absent replication key is passed over in
\* silence.
IncrementStreamState_IgnoresMissingKey(sd, latest_record) ==
    IF replication_method \notin {REPLICATION_INCREMENTAL, REPLICATION_LOG_BASED}
    THEN [state |-> sd, raised |-> UnrecognizedMethodError]
    ELSE IF replication_key = ""
    THEN [state |-> sd, raised |-> "none"]
    ELSE IncrementState(sd, replication_key, latest_record,
                        TreatAsSorted, check_sorted)

\* lines 49-94: _increment_stream_state(latest_record), on the state sd.
IncrementStreamState(sd, latest_record) ==
    IF replication_method \notin {REPLICATION_INCREMENTAL, REPLICATION_LOG_BASED}
    THEN [state |-> sd, raised |-> UnrecognizedMethodError]
    ELSE IF replication_key = ""
    THEN [state |-> sd, raised |-> MissingKeyError]
    ELSE IncrementState(sd, replication_key, latest_record,
                        TreatAsSorted, check_sorted)

(***************************************************************************)
(* SpecAdvance: _increment_stream_state called directly, with any          *)
(* candidate, on a stream with any is_sorted and state_partitioning_keys.  *)
(***************************************************************************)
SampleOids == {i * IdStride : i \in 0..MaxIdx}

\* The upper-case hex text of an identifier: ObjectId() accepts it, str()
\* never produces it, and Python orders "0A" before "0a" and after "05".
OidToUpperStr(oid) ==
    [i \in 1..OidHexLen |->
        LET d == (oid \div Pow16(OidHexLen - i)) % 16
        IN  IF d < 10 THEN 48 + d ELSE 55 + d]

UpperCaseSample == OidToUpperStr(2 * IdStride)

Candidates == {OidToStr(o) : o \in SampleOids} \cup {UpperCaseSample}

IdleLocals ==
    /\ pc = "idle"
    /\ bookmark = None
    /\ start_date = None
    /\ results = << >>
    /\ idx = 0
    /\ resume_after = None
    /\ cursor = "none"
    /\ alive = FALSE
    /\ pos = 0
    /\ first_pos = 0
    /\ has_seen_a_record = FALSE
    /\ keep_open = TRUE
    /\ record = None
    /\ polled = FALSE
    /\ emitted = << >>
    /\ run = 1
    /\ first_run = None
    /\ raised = "none"
    /\ calls = << >>

InitAdvance ==
    /\ replication_method \in {REPLICATION_INCREMENTAL, REPLICATION_LOG_BASED}
    /\ is_sorted \in BOOLEAN
    /\ state_partitioning_keys \in {None, Some(<< >>)}
    /\ replication_key = "_id"
    /\ config = [start_date |-> None, operation_types |-> {}]
    /\ collection = {}
    /\ change_log = << >>
    /\ \E stored \in {None} \cup {Some(c) : c \in Candidates} :
          state_dict = [EmptyState EXCEPT !.replication_key_value = stored]
    /\ IdleLocals

\* One call of _increment_stream_state with the record {"_id": candidate}.
Advance(candidate) ==
    /\ Len(calls) < MaxCalls
    /\ LET r == IncrementStreamState(state_dict, [_id |-> candidate])
       IN  /\ state_dict' = r.state
           /\ raised' = r.raised
           /\ calls' = Append(calls, [candidate |-> candidate,
                                      sorted |-> TreatAsSorted,
                                      before |-> state_dict,
                                      after |-> r.state,
                                      raised |-> r.raised])
    /\ UNCHANGED << streamVars, scanVars, watchVars, pc, emitted, run, first_run >>

NextAdvance == \E c \in Candidates : Advance(c)

SpecAdvance == InitAdvance /\ [][NextAdvance]_vars

\* The candidates of the calls made so far are strictly increasing, and the
\* first one is greater than what was stored before the first call.
StrictlyIncreasingCalls ==
    /\ \A i \in 1..(Len(calls) - 1) :
          StrLess(calls[i].candidate, calls[i + 1].candidate)
    /\ calls # << >> =>
          \/ calls[1].before.replication_key_value = None
          \/ StrLess(Get(calls[1].before.replication_key_value), calls[1].candidate)

\* C7: with is_sorted = true, a call whose candidate is less than the stored
\* bookmark raises the out-of-order error and leaves the state as it was.
C7_OutOfOrderRejected ==
    \A i \in 1..Len(calls) :
        LET c == calls[i] IN
        (/\ is_sorted
         /\ c.before.replication_key_value # None
         /\ StrLess(c.candidate, Get(c.before.replication_key_value)))
        => /\ c.raised = "InvalidStreamSortException"
           /\ c.after = c.before
           /\ (i = Len(calls) => state_dict = c.before)

C7_Witness ==
    /\ is_sorted
    /\ calls # << >>
    /\ calls[Len(calls)].before.replication_key_value # None
    /\ StrLess(calls[Len(calls)].candidate,
               Get(calls[Len(calls)].before.replication_key_value))
    /\ raised = "InvalidStreamSortException"

\* C8: with is_sorted = true, after calls with strictly increasing candidates
\* no call has raised and the stored bookmark is the last candidate.
C8_IncreasingAccepted ==
    (is_sorted /\ calls # << >> /\ StrictlyIncreasingCalls)
    => /\ \A i \in 1..Len(calls) : calls[i].raised = "none"
       /\ state_dict.replication_key_value = Some(calls[Len(calls)].candidate)

C8_Witness ==
    /\ is_sorted
    /\ Len(calls) = MaxCalls
    /\ StrictlyIncreasingCalls
    /\ state_dict.replication_key_value = Some(calls[Len(calls)].candidate)

\* C9 as stated: with is_sorted = false every candidate is accepted and
\* becomes the stored value.
C9_AlwaysOverwrites ==
    \A i \in 1..Len(calls) :
        ~is_sorted =>
            /\ calls[i].raised = "none"
            /\ calls[i].after.progress_markers = Some(calls[i].candidate)

\* C9, amended: with is_sorted = false no candidate raises; the candidate
\* becomes the stored value when nothing is stored or when it is not smaller
\* than the stored value, and a smaller candidate leaves the stored value.
C9_UnsortedKeepsMaximum ==
    \A i \in 1..Len(calls) :
        LET c == calls[i]
            old == c.before.progress_markers
        IN  ~is_sorted =>
            /\ c.raised = "none"
            /\ c.after.replication_key_value = c.before.replication_key_value
            /\ c.after.progress_markers =
                  IF old = None \/ StrGE(c.candidate, Get(old))
                  THEN Some(c.candidate) ELSE old

C9_Witness ==
    /\ ~is_sorted
    /\ calls # << >>
    /\ calls[Len(calls)].before.progress_markers # None
    /\ StrLess(calls[Len(calls)].candidate,
               Get(calls[Len(calls)].before.progress_markers))
    /\ raised = "none"
    /\ state_dict = calls[Len(calls)].before

\* C10 as stated: a stream with state_partitioning_keys is advanced with
\* is_sorted = false and never raises the out-of-order error.
C10_PartitionedNeverSorted ==
    \A i \in 1..Len(calls) :
        state_partitioning_keys # None =>
            /\ calls[i].sorted = FALSE
            /\ calls[i].raised # "InvalidStreamSortException"

(***************************************************************************)
(* get_records, INCREMENTAL: lines 98-127.                                 *)
(***************************************************************************)
RECURSIVE Ascending(_)
Ascending(S) ==
    IF S = {} THEN << >>
    ELSE LET m == CHOOSE x \in S : \A y \in S : x <= y
         IN  << m >> \o Ascending(S \ {m})

RECURSIVE Descending(_)
Descending(S) ==
    IF S = {} THEN << >>
    ELSE LET m == CHOOSE x \in S : \A y \in S : x >= y
         IN  << m >> \o Descending(S \ {m})

\* self.config.get("start_date", "1970-01-01") as seconds since the epoch.
ConfigStartTs == IF config.start_date = None THEN 0 ELSE Get(config.start_date)

\* lines 103-115: the identifier the scan starts after.  A bookmark that
\* ObjectId() rejects leaves start_date = None.
StartingId(bm) ==
    IF bm # None /\ Get(bm) # << >>
    THEN IF IsValidOid(Get(bm)) THEN Some(StrToOid(Get(bm))) ELSE None
    ELSE Some(OidFromDatetime(ConfigStartTs))

\* Mutants of the query: an inclusive bound, and no ascending sort.
Find_Inclusive(coll, start) ==
    IF start = None THEN << >>
    ELSE Ascending({o \in coll : o >= Get(start)})

Find_Descending(coll, start) ==
    IF start = None THEN << >>
    ELSE Descending({o \in coll : o > Get(start)})

\* lines 117-119: find({"_id": {"$gt": start_date}}).sort([("_id", ASCENDING)]).
\* MongoDB compares within one BSON type: no ObjectId is $gt null.
Find(coll, start) ==
    IF start = None THEN << >>
    ELSE Ascending({o \in coll : o > Get(start)})

\* lines 120-124: the record yielded for a document (the document is its _id).
ParsedRecord(oid) == [_id |-> OidToStr(oid), document |-> oid]

\* A bookmark that is not an identifier: a character that is no hex digit,
\* and a string one character too long.
BadBookmarks ==
    { [i \in 1..OidHexLen |-> IF i = 1 THEN 103 ELSE 48],
      Append(OidToStr(IdStride), 48) }

InitialBookmarks ==
    {None, Some(<< >>), Some(UpperCaseSample)}
        \cup {Some(OidToStr(o)) : o \in SampleOids}
        \cup {Some(b) : b \in BadBookmarks}

InitIncremental ==
    /\ replication_method = REPLICATION_INCREMENTAL
    /\ is_sorted \in BOOLEAN
    /\ state_partitioning_keys = None
    /\ replication_key = "_id"
    /\ \E sd \in {None} \cup {Some(t) : t \in 0..MaxStartTs} :
          config = [start_date |-> sd, operation_types |-> {}]
    /\ collection \in {c \in SUBSET SampleOids : Cardinality(c) <= MaxDocs}
    /\ change_log = << >>
    /\ \E stored \in InitialBookmarks :
          state_dict = [EmptyState EXCEPT !.replication_key_value = stored]
    /\ IdleLocals

\* lines 98-119: the call up to the query.
ScanOpen ==
    /\ pc = "idle"
    /\ replication_method = REPLICATION_INCREMENTAL
    /\ bookmark' = state_dict.replication_key_value
    /\ start_date' = StartingId(bookmark')
    /\ results' = Find(collection, start_date')
    /\ idx' = 0
    /\ pc' = "scan"
    /\ UNCHANGED << streamVars, watchVars, state_dict, emitted, run, first_run,
                    raised, calls >>

\* lines 117-127: the next document of the cursor is yielded.
ScanYield ==
    /\ pc = "scan"
    /\ idx < Len(results)
    /\ idx' = idx + 1
    /\ emitted' = Append(emitted, ParsedRecord(results[idx + 1]))
    /\ pc' = "yielded"
    /\ UNCHANGED << streamVars, watchVars, state_dict, bookmark, start_date,
                    results, run, first_run, raised, calls >>

\* line 117: the cursor is exhausted and the generator returns.
ScanExhausted ==
    /\ pc = "scan"
    /\ idx = Len(results)
    /\ pc' = "done"
    /\ UNCHANGED << streamVars, scanVars, watchVars, state_dict, emitted, run,
                    first_run, raised, calls >>

(***************************************************************************)
(* The caller of get_records: the sync loop of the base Stream.  It hands  *)
(* every yielded record to _increment_stream_state before it asks for the  *)
(* next one, promotes the progress marker to the bookmark when the         *)
(* invocation has ended, and drops a leftover marker when it starts again. *)
(***************************************************************************)
ConsumerAdvance ==
    /\ pc = "yielded"
    /\ LET r == IncrementStreamState(state_dict, emitted[Len(emitted)])
       IN  /\ state_dict' = r.state
           /\ raised' = r.raised
           /\ pc' = IF r.raised # "none" THEN "error"
                    ELSE IF replication_method = REPLICATION_INCREMENTAL
                         THEN "scan" ELSE "resume"
           /\ cursor' = IF r.raised # "none" /\ cursor = "open"
                        THEN "closed" ELSE cursor
           /\ alive' = IF r.raised # "none" THEN FALSE ELSE alive
    /\ UNCHANGED << streamVars, scanVars, resume_after, pos, first_pos,
                    has_seen_a_record, keep_open, record, polled, emitted, run,
                    first_run, calls >>

ConsumerFinalize ==
    /\ pc = "done"
    /\ state_dict' =
          IF state_dict.progress_markers = None THEN state_dict
          ELSE [replication_key_value |-> state_dict.progress_markers,
                progress_markers |-> None]
    /\ pc' = "finished"
    /\ UNCHANGED << streamVars, scanVars, watchVars, emitted, run, first_run,
                    raised, calls >>

\* The first invocation is over (interrupted wherever it stands, or finished)
\* and the tap is started again on the state it left.
Restart ==
    /\ run = 1
    /\ pc \in {"scan", "yielded", "loop", "resume", "cancelled", "finished"}
    /\ first_run' = Some([emitted |-> emitted, pc |-> pc,
                          start_date |-> start_date, state |-> state_dict])
    /\ run' = 2
    /\ state_dict' = [state_dict EXCEPT !.progress_markers = None]
    /\ pc' = "idle"
    /\ bookmark' = None
    /\ start_date' = None
    /\ results' = << >>
    /\ idx' = 0
    /\ resume_after' = None
    /\ cursor' = "none"
    /\ alive' = FALSE
    /\ first_pos' = 0
    /\ has_seen_a_record' = FALSE
    /\ keep_open' = TRUE
    /\ record' = None
    /\ polled' = FALSE
    /\ emitted' = << >>
    /\ raised' = "none"
    /\ UNCHANGED << streamVars, pos, calls >>

NextIncremental ==
    \/ ScanOpen
    \/ ScanYield
    \/ ScanExhausted
    \/ ConsumerAdvance
    \/ ConsumerFinalize
    \/ Restart

SpecIncremental == InitIncremental /\ [][NextIncremental]_vars

\* The identifiers of the documents behind a sequence of yielded records.
Documents(recs) == {recs[i].document : i \in 1..Len(recs)}

BookmarkPresent == bookmark # None /\ Get(bookmark) # << >>

\* C1: a second run started on the state the interrupted first run left
\* yields every document greater than the bookmark it starts from, and every
\* document greater than the first run's starting identifier is yielded by
\* the first or by the second run.
C1_NoSkipOnResume ==
    (/\ run = 2
     /\ pc \in {"done", "finished"}
     /\ Get(first_run).start_date # None)
    => LET f == Get(first_run)
           from == StartingId(bookmark)
       IN  /\ from # None
           /\ \A o \in collection :
                 o > Get(from) => o \in Documents(emitted)
           /\ \A o \in collection :
                 o > Get(f.start_date)
                     => o \in Documents(f.emitted) \cup Documents(emitted)

C1_Witness ==
    /\ run = 2
    /\ pc = "done"
    /\ is_sorted
    /\ Get(first_run).pc \in {"scan", "yielded"}
    /\ Len(Get(first_run).emitted) >= 2
    /\ bookmark = Some(Get(first_run).emitted[1]._id)
    /\ Len(emitted) >= 1
    /\ Cardinality(collection) = MaxDocs

\* C2: the scan yields the documents whose identifier is greater than the
\* starting identifier (the bookmark when there is one, else the one of
\* start_date), each once, in ascending order; three documents after the
\* epoch and no bookmark give all three, and the second one as the bookmark
\* gives the third alone.
C2_ScanOutput ==
    (pc # "idle" /\ (BookmarkPresent => IsValidOid(Get(bookmark))))
    => LET from == IF BookmarkPresent THEN StrToOid(Get(bookmark))
                   ELSE OidFromDatetime(ConfigStartTs)
           want == {o \in collection : o > from}
           ended == pc \in {"done", "finished"}
       IN  /\ \A i \in 1..Len(emitted) :
                 /\ emitted[i].document \in want
                 /\ emitted[i]._id = OidToStr(emitted[i].document)
           /\ \A i \in 1..Len(emitted) : \A j \in 1..Len(emitted) :
                 i < j => emitted[i].document < emitted[j].document
           /\ ended => \A o \in want : o \in Documents(emitted)
           /\ (/\ ended
               /\ bookmark = None
               /\ ConfigStartTs = 0
               /\ Cardinality(collection) = 3
               /\ \A o \in collection : o > OidFromDatetime(0))
              => /\ Len(emitted) = 3
                 /\ Documents(emitted) = collection
           /\ (/\ ended
               /\ Cardinality(collection) = 3
               /\ BookmarkPresent
               /\ \E lo \in collection : \E hi \in collection :
                     lo < from /\ from < hi /\ from \in collection)
              => /\ Len(emitted) = 1
                 /\ \A o \in collection : emitted[1].document >= o

C2_Witness ==
    /\ pc = "done"
    /\ Cardinality(collection) = 3
    /\ BookmarkPresent
    /\ IsValidOid(Get(bookmark))
    /\ StrToOid(Get(bookmark)) \in collection
    /\ Len(emitted) = 1

\* C3 as stated: a bookmark that is not an identifier raises nothing and
\* makes the scan start from the identifier of the configured start_date, so
\* the documents after start_date are yielded.
C3_FallsBackToStartDate ==
    (/\ pc # "idle"
     /\ BookmarkPresent
     /\ ~IsValidOid(Get(bookmark)))
    => /\ raised = "none"
       /\ start_date = Some(OidFromDatetime(ConfigStartTs))
       /\ pc \in {"done", "finished"} =>
              \A o \in collection :
                  o > OidFromDatetime(ConfigStartTs) => o \in Documents(emitted)

(***************************************************************************)
(* get_records, LOG_BASED: lines 98-100 and 129-176.                       *)
(*                                                                         *)
(* change_log is what the collection's change stream can deliver; event k  *)
(* carries the resume token ResumeToken(k).  A poll (try_next) returns the *)
(* next event when one has arrived and None otherwise.                     *)
(***************************************************************************)
OperationTypes == {"insert", "update", "delete"}

\* The resume token of the k-th event: "82" and a hex digit.
ResumeToken(k) == << 56, 50, HexChar(k) >>

ChangeEvent(op, k) == [operationType |-> op, _id |-> [_data |-> ResumeToken(k)]]

ChangeLogs ==
    UNION { { [k \in 1..n |-> ChangeEvent(ops[k], k)] :
                ops \in [1..n -> OperationTypes] } : n \in 0..MaxEvents }

\* The configured operation_types tried.
AllowLists == {{"insert", "update"}, {"delete"}, OperationTypes}

\* line 133: the allow-list.
operation_types_allowlist == config.operation_types

\* lines 153-155: an event passes when its operationType is in the allow-list.
IsAllowed_Always(event) == TRUE

IsAllowed(event) == event.operationType \in operation_types_allowlist

\* lines 150-151: keep_open after a poll that returned rec.
KeepOpenAfter_NeverCloses(rec, seen, keep) == keep

KeepOpenAfter_ClosesOnFirstGap(rec, seen, keep) ==
    IF rec = None THEN FALSE ELSE keep

KeepOpenAfter(rec, seen, keep) ==
    IF rec = None /\ seen THEN FALSE ELSE keep

\* lines 156-163: the record yielded for an event.
ParsedEvent(event) ==
    [_id |-> event._id._data, operationType |-> event.operationType]

\* lines 130-132: the resume token handed to watch(), None when the option
\* is not set.
ResumeAfter_Never(bm) == None

ResumeAfter(bm) == IF bm # None THEN Some(Get(bm)) ELSE None

\* line 137: the loop condition.
LoopCondition_IgnoresAlive == keep_open

LoopCondition == alive /\ keep_open

\* The position of the event with the given resume token, 0 when the log
\* does not hold it.
TokenPosition(token) ==
    IF \E k \in 1..Len(change_log) : change_log[k]._id._data = token
    THEN CHOOSE k \in 1..Len(change_log) : change_log[k]._id._data = token
    ELSE 0

InitLogBased ==
    /\ replication_method = REPLICATION_LOG_BASED
    /\ is_sorted = FALSE
    /\ state_partitioning_keys = None
    /\ replication_key = "_id"
    /\ \E allow \in AllowLists :
          config = [start_date |-> None, operation_types |-> allow]
    /\ collection = {}
    /\ change_log \in ChangeLogs
    /\ \E stored \in {None} \cup {Some(ResumeToken(k)) : k \in 0..Len(change_log)} :
          state_dict = [EmptyState EXCEPT !.replication_key_value = stored]
    /\ IdleLocals

\* lines 98-136: the change stream is opened, after the bookmark's event when
\* there is a bookmark and at the current end of the log when there is none.
WatchOpen ==
    /\ pc = "idle"
    /\ replication_method = REPLICATION_LOG_BASED
    /\ bookmark' = state_dict.replication_key_value
    /\ resume_after' = ResumeAfter(bookmark')
    /\ \/ /\ resume_after' = None
          /\ \E tail \in pos..Len(change_log) : pos' = tail
       \/ /\ resume_after' # None
          /\ TokenPosition(Get(resume_after')) > 0
          /\ pos' = TokenPosition(Get(resume_after'))
    /\ first_pos' = pos'
    /\ cursor' = "open"
    /\ alive' = TRUE
    /\ has_seen_a_record' = FALSE
    /\ keep_open' = TRUE
    /\ record' = None
    /\ polled' = FALSE
    /\ pc' = "loop"
    /\ UNCHANGED << streamVars, start_date, results, idx, state_dict, emitted,
                    run, first_run, raised, calls >>

\* A mutant of the opening: a refused token is dropped and the stream is
\* opened at the end of the log.
WatchRejected_FallsBackToTail ==
    /\ pc = "idle"
    /\ replication_method = REPLICATION_LOG_BASED
    /\ bookmark' = state_dict.replication_key_value
    /\ resume_after' = ResumeAfter(bookmark')
    /\ resume_after' # None
    /\ TokenPosition(Get(resume_after')) = 0
    /\ pos' = Len(change_log)
    /\ first_pos' = pos'
    /\ cursor' = "open"
    /\ alive' = TRUE
    /\ pc' = "loop"
    /\ UNCHANGED << streamVars, start_date, results, idx, has_seen_a_record,
                    keep_open, record, polled, state_dict, emitted, run,
                    first_run, raised, calls >>

\* line 136: the server refuses a resume token it does not know.
WatchRejected ==
    /\ pc = "idle"
    /\ replication_method = REPLICATION_LOG_BASED
    /\ bookmark' = state_dict.replication_key_value
    /\ resume_after' = ResumeAfter(bookmark')
    /\ resume_after' # None
    /\ TokenPosition(Get(resume_after')) = 0
    /\ raised' = "OperationFailure"
    /\ pc' = "error"
    /\ UNCHANGED << streamVars, start_date, results, idx, cursor, alive, pos,
                    first_pos, has_seen_a_record, keep_open, record, polled,
                    state_dict, emitted, run, first_run, calls >>

\* line 159: record["fullDocument"] is a plain key lookup; the event of a
\* delete carries a documentKey and no fullDocument.
HasFullDocument(event) == event.operationType # "delete"

\* lines 137-175: one turn of the loop whose poll returns rec (None or an
\* event) and raises nothing; the cursor may report itself dead afterwards.
Poll(rec, still_alive) ==
    /\ record' = rec
    /\ polled' = TRUE
    /\ alive' = still_alive
    /\ keep_open' = KeepOpenAfter(rec, has_seen_a_record, keep_open)
    /\ IF rec # None /\ IsAllowed(Get(rec))
       THEN /\ emitted' = Append(emitted, ParsedEvent(Get(rec)))
            /\ pc' = "yielded"
       ELSE /\ emitted' = emitted
            /\ pc' = "loop"

WatchPoll ==
    /\ pc = "loop"
    /\ LoopCondition
    /\ \E still_alive \in BOOLEAN :
          \/ /\ pos < Len(change_log)
             /\ IsAllowed(change_log[pos + 1]) => HasFullDocument(change_log[pos + 1])
             /\ pos' = pos + 1
             /\ Poll(Some(change_log[pos + 1]), still_alive)
          \/ /\ pos' = pos
             /\ Poll(None, still_alive)
    /\ UNCHANGED << streamVars, scanVars, resume_after, first_pos,
                    has_seen_a_record, cursor, state_dict, run, first_run, raised,
                    calls >>

\* line 138: try_next raises; the with statement closes the change stream.
WatchPollRaises ==
    /\ pc = "loop"
    /\ LoopCondition
    /\ polled' = TRUE
    /\ raised' = "PyMongoError"
    /\ cursor' = "closed"
    /\ alive' = FALSE
    /\ pc' = "error"
    /\ UNCHANGED << streamVars, scanVars, resume_after, pos, first_pos,
                    has_seen_a_record, keep_open, record, state_dict, emitted, run,
                    first_run, calls >>

\* lines 153-163: the event passes the allow-list and has no fullDocument;
\* the KeyError of line 159 leaves through the with statement, which closes
\* the change stream.
WatchNormalizeRaises ==
    /\ pc = "loop"
    /\ LoopCondition
    /\ pos < Len(change_log)
    /\ IsAllowed(change_log[pos + 1])
    /\ ~HasFullDocument(change_log[pos + 1])
    /\ pos' = pos + 1
    /\ record' = Some(change_log[pos + 1])
    /\ polled' = TRUE
    /\ raised' = "KeyError"
    /\ cursor' = "closed"
    /\ alive' = FALSE
    /\ pc' = "error"
    /\ UNCHANGED << streamVars, scanVars, resume_after, first_pos,
                    has_seen_a_record, keep_open, state_dict, emitted, run,
                    first_run, calls >>

\* lines 136-137: the loop condition fails; the with statement closes the
\* change stream and the generator returns.
WatchExit ==
    /\ pc = "loop"
    /\ ~LoopCondition
    /\ cursor' = "closed"
    /\ alive' = FALSE
    /\ pc' = "done"
    /\ UNCHANGED << streamVars, scanVars, resume_after, pos, first_pos,
                    has_seen_a_record, keep_open, record, polled, state_dict,
                    emitted, run, first_run, raised, calls >>

\* line 176: the consumer asks for the next record.
WatchResume ==
    /\ pc = "resume"
    /\ has_seen_a_record' = TRUE
    /\ pc' = "loop"
    /\ UNCHANGED << streamVars, scanVars, resume_after, cursor, alive, pos,
                    first_pos, keep_open, record, polled, state_dict, emitted, run,
                    first_run, raised, calls >>

\* A mutant of the cancellation: the change stream is not closed.
ConsumerCancel_Leaks ==
    /\ pc \in {"yielded", "resume"}
    /\ replication_method = REPLICATION_LOG_BASED
    /\ pc' = "cancelled"
    /\ UNCHANGED << streamVars, scanVars, watchVars, state_dict, emitted, run,
                    first_run, raised, calls >>

\* line 175: the consumer closes the generator while it is suspended at the
\* yield; the with statement closes the change stream.
ConsumerCancel ==
    /\ pc \in {"yielded", "resume"}
    /\ replication_method = REPLICATION_LOG_BASED
    /\ cursor' = "closed"
    /\ alive' = FALSE
    /\ pc' = "cancelled"
    /\ UNCHANGED << streamVars, scanVars, resume_after, pos, first_pos,
                    has_seen_a_record, keep_open, record, polled, state_dict,
                    emitted, run, first_run, raised, calls >>

NextLogBased ==
    \/ WatchOpen
    \/ WatchRejected
    \/ WatchPoll
    \/ WatchPollRaises
    \/ WatchNormalizeRaises
    \/ WatchExit
    \/ WatchResume
    \/ ConsumerAdvance
    \/ ConsumerCancel
    \/ ConsumerFinalize
    \/ Restart

SpecLogBased == InitLogBased /\ [][NextLogBased]_vars

\* The generator takes its next step and the consumer, unless it cancels,
\* hands on the record and asks for the next one.
FairSpecLogBased ==
    /\ SpecLogBased
    /\ WF_vars(WatchPoll)
    /\ WF_vars(WatchExit)
    /\ WF_vars(WatchResume)
    /\ WF_vars(ConsumerAdvance)

\* The invocation has ended by leaving the loop (not by an error, not by the
\* consumer closing it).
LoopEnded == pc \in {"done", "finished"}

\* C4 as stated: an invocation all of whose polls returned None does not end
\* unless the consumer cancels it.
C4_IdleNeverEnds ==
    (/\ replication_method = REPLICATION_LOG_BASED
     /\ polled
     /\ pos = first_pos
     /\ emitted = << >>)
    => ~LoopEnded

\* C4, amended: while no record has been yielded, a poll that returns None
\* leaves keep_open true and the invocation in the loop, and the loop ends
\* only because the cursor reports itself not alive.
C4_IdleEndsOnlyWhenNotAlive ==
    [][(/\ replication_method = REPLICATION_LOG_BASED
        /\ pc = "loop"
        /\ ~has_seen_a_record
        /\ run' = run)
       => /\ keep_open /\ keep_open'
          /\ (pc' = "done" => ~alive)
          /\ (pc' = "loop" /\ record' = None /\ polled'
                 => emitted' = emitted /\ cursor' = "open")]_vars

C4_Witness ==
    /\ replication_method = REPLICATION_LOG_BASED
    /\ pc = "loop"
    /\ polled
    /\ pos = first_pos
    /\ record = None
    /\ ~has_seen_a_record
    /\ keep_open
    /\ alive
    /\ cursor = "open"

\* C5: once a record has been yielded, the first poll that returns None takes
\* the closing decision; after it nothing is polled or yielded, the change
\* stream is closed and the invocation ends; and an invocation that has
\* yielded a record eventually ends.
C5_ClosesAfterCatchingUp ==
    /\ [][(/\ pc = "loop"
           /\ has_seen_a_record
           /\ pc' = "loop"
           /\ record' = None)
          => ~keep_open']_vars
    /\ [][(/\ replication_method = REPLICATION_LOG_BASED
           /\ ~keep_open
           /\ run' = run)
          => /\ pos' = pos
             /\ emitted' = emitted
             /\ pc' \in {"done", "finished"}
             /\ cursor' = "closed"]_vars
    /\ (emitted # << >>) ~> (pc \in {"done", "finished", "cancelled", "error", "idle"})

C5_Witness ==
    /\ pc = "done"
    /\ has_seen_a_record
    /\ ~keep_open
    /\ record = None
    /\ cursor = "closed"
    /\ pos < Len(change_log)
    /\ Len(emitted) >= 2

\* C6: no yielded record has an operationType outside the allow-list; an
\* event outside it leaves has_seen_a_record and the output as they were and
\* the invocation in the loop; with the allow-list {insert, update} and the
\* events delete, insert, the flag is false after the delete and the output
\* is the insert alone.
C6_AllowList ==
    /\ [](\A i \in 1..Len(emitted) :
              replication_method = REPLICATION_LOG_BASED
                  => emitted[i].operationType \in config.operation_types)
    /\ [][(/\ pc = "loop"
           /\ pos' = pos + 1
           /\ change_log[pos'].operationType \notin config.operation_types)
          => /\ has_seen_a_record' = has_seen_a_record
             /\ keep_open' = keep_open
             /\ emitted' = emitted
             /\ pc' = "loop"
             /\ cursor' = "open"]_vars
    /\ []((/\ config.operation_types = {"insert", "update"}
           /\ Len(change_log) = 2
           /\ change_log[1].operationType = "delete"
           /\ change_log[2].operationType = "insert"
           /\ first_pos = 0
           /\ run = 1)
          => /\ (pos = 1 /\ pc = "loop" => ~has_seen_a_record /\ emitted = << >>)
             /\ (pos = 2 /\ pc \in {"yielded", "resume", "done", "finished"}
                    => emitted = << ParsedEvent(change_log[2]) >>))

C6_Witness ==
    /\ config.operation_types = {"insert", "update"}
    /\ Len(change_log) = 2
    /\ change_log[1].operationType = "delete"
    /\ change_log[2].operationType = "insert"
    /\ run = 1
    /\ pc = "done"
    /\ keep_open = FALSE
    /\ emitted = << [_id |-> ResumeToken(2), operationType |-> "insert"] >>

LogBased == replication_method = REPLICATION_LOG_BASED

\* The _id of the last record of a sequence of yielded records.
LastId(recs) == recs[Len(recs)]._id

C12_RejectedTokenIsFatal ==
    (/\ LogBased
     /\ pc # "idle"
     /\ bookmark # None
     /\ TokenPosition(Get(bookmark)) = 0)
    => /\ raised = "OperationFailure"
       /\ pc = "error"
       /\ emitted = << >>
       /\ cursor = "none"
       /\ ~polled
       /\ state_dict.replication_key_value = bookmark

C12_Witness ==
    /\ LogBased
    /\ raised = "OperationFailure"
    /\ pc = "error"
    /\ bookmark # None
    /\ Len(change_log) >= 1
    /\ state_dict.replication_key_value = bookmark

\* C13: whichever way the invocation has ended (the loop left after catching
\* up or because the cursor is not alive, an error while polling or building
\* the record, the consumer closing the generator at a yield), the change
\* stream is not open.
C13_CursorReleased ==
    (LogBased /\ pc \in {"done", "finished", "error", "cancelled"})
    => cursor # "open"

C13_Witness ==
    /\ LogBased
    /\ pc = "cancelled"
    /\ ~has_seen_a_record
    /\ Len(emitted) = 1
    /\ cursor = "closed"

\* The events delivered by the polls of this invocation that pass the
\* allow-list, in the order of their delivery.
PassesAllowList(event) == event.operationType \in config.operation_types

AllowedDelivered == SelectSeq(SubSeq(change_log, first_pos + 1, pos), PassesAllowList)

\* C18: the records yielded are the delivered events that pass the
\* allow-list, each once and in the order of delivery, and the _id of each
\* is the resume token of its event.
C18_YieldsAllowedEventsInOrder ==
    (LogBased /\ pc # "idle")
    => /\ Len(emitted) = Len(AllowedDelivered)
       /\ \A i \in 1..Len(emitted) :
             /\ emitted[i]._id = AllowedDelivered[i]._id._data
             /\ emitted[i].operationType = AllowedDelivered[i].operationType

\* C19: when the cursor reports itself not alive at the loop condition, the
\* next step of the invocation is its end: nothing more is polled or yielded
\* and the change stream is closed, whatever the two flags are.
C19_NotAliveEndsTheLoop ==
    [][(LogBased /\ pc = "loop" /\ ~alive /\ run' = run)
       => /\ pc' = "done"
          /\ pos' = pos
          /\ record' = record
          /\ emitted' = emitted
          /\ has_seen_a_record' = has_seen_a_record
          /\ keep_open' = keep_open
          /\ cursor' = "closed"]_vars

C19_Witness ==
    /\ LogBased
    /\ pc = "done"
    /\ polled
    /\ ~has_seen_a_record
    /\ keep_open
    /\ emitted = << >>
    /\ cursor = "closed"

\* C20: within an invocation has_seen_a_record never goes back to false and
\* keep_open never back to true; keep_open is false only when
\* has_seen_a_record is true; and has_seen_a_record is true only when a
\* record has been yielded and the consumer has asked for the one after it.
C20_LoopFlags ==
    /\ [](LogBased =>
            /\ (~keep_open => has_seen_a_record)
            /\ (has_seen_a_record =>
                   /\ Len(emitted) >= 1
                   /\ (pc \in {"yielded", "resume"} => Len(emitted) >= 2)))
    /\ [][(LogBased /\ run' = run)
          => /\ (has_seen_a_record => has_seen_a_record')
             /\ (~keep_open => ~keep_open')]_vars

C20_Witness ==
    /\ LogBased
    /\ pc = "loop"
    /\ has_seen_a_record
    /\ ~keep_open
    /\ Len(emitted) = 1

\* The position the store holds for the stream: the bookmark of a sorted
\* stream, the progress marker of an unsorted one.
PersistedPosition == StoredPosition(state_dict, TreatAsSorted)

\* The records of the first run that the second run has yielded again.
Replayed ==
    {i \in 1..Len(Get(first_run).emitted) :
        \E j \in 1..Len(emitted) : emitted[j]._id = Get(first_run).emitted[i]._id}

\* C15: the position is advanced after every yielded record, so that it is
\* the id of the last yielded record or of the one before it, and a second
\* run started after the first was interrupted yields again at most one of
\* the records the first run yielded.
C15_CrashReplaysAtMostOne ==
    /\ (pc \in {"scan", "yielded", "done"} /\ Len(emitted) >= 2)
          => PersistedPosition \in {Some(emitted[Len(emitted)]._id),
                                    Some(emitted[Len(emitted) - 1]._id)}
    /\ run = 2 => Cardinality(Replayed) <= 1

\* C16: when the first run went through the whole scan, its bookmark advanced
\* after each record, and the tap is run again on the same collection from
\* the bookmark that run left, the second run yields no record.
C16_IdempotentTail ==
    (/\ replication_method = REPLICATION_INCREMENTAL
     /\ run = 2
     /\ Get(first_run).pc = "finished")
    => /\ emitted = << >>
       /\ pc \in {"scan", "done", "finished"} => results = << >>

C16_Witness ==
    /\ replication_method = REPLICATION_INCREMENTAL
    /\ run = 2
    /\ pc = "finished"
    /\ Get(first_run).pc = "finished"
    /\ Len(Get(first_run).emitted) >= 2
    /\ bookmark = Some(LastId(Get(first_run).emitted))
    /\ emitted = << >>

(***************************************************************************)
(* The stream with a replication method or a replication key that the two  *)
(* methods refuse.                                                         *)
(***************************************************************************)

\* A replication method other than the two of lines 15-19.
REPLICATION_FULL_TABLE == "FULL_TABLE"

InitMisconfigured ==
    /\ replication_method \in {REPLICATION_INCREMENTAL, REPLICATION_LOG_BASED,
                               REPLICATION_FULL_TABLE}
    /\ is_sorted \in BOOLEAN
    /\ state_partitioning_keys = None
    /\ replication_key \in {"_id", ""}
    /\ config = [start_date |-> None, operation_types |-> OperationTypes]
    /\ collection = {IdStride}
    /\ change_log = << ChangeEvent("insert", 1) >>
    /\ \E stored \in {None} \cup {Some(c) : c \in Candidates} :
          state_dict = [EmptyState EXCEPT !.replication_key_value = stored]
    /\ IdleLocals

\* A mutant of the call: the unrecognized method is read as Incremental.
GetRecordsUnrecognized_OpensScan ==
    /\ pc = "idle"
    /\ replication_method \notin {REPLICATION_INCREMENTAL, REPLICATION_LOG_BASED}
    /\ bookmark' = state_dict.replication_key_value
    /\ start_date' = Some(0)
    /\ results' = Find(collection, start_date')
    /\ idx' = 0
    /\ pc' = "scan"
    /\ UNCHANGED << streamVars, watchVars, state_dict, emitted, run, first_run,
                    raised, calls >>

\* lines 98-100, 129 and 178-184: get_records on a stream whose replication
\* method is neither of the two; the generator raises at its first step.
GetRecordsUnrecognized ==
    /\ pc = "idle"
    /\ replication_method \notin {REPLICATION_INCREMENTAL, REPLICATION_LOG_BASED}
    /\ bookmark' = state_dict.replication_key_value
    /\ raised' = UnrecognizedMethodError
    /\ pc' = "error"
    /\ UNCHANGED << streamVars, start_date, results, idx, watchVars, state_dict,
                    emitted, run, first_run, calls >>

NextMisconfigured ==
    \/ GetRecordsUnrecognized
    \/ \E c \in Candidates : Advance(c)

SpecMisconfigured == InitMisconfigured /\ [][NextMisconfigured]_vars

Recognized ==
    replication_method \in {REPLICATION_INCREMENTAL, REPLICATION_LOG_BASED}

\* C14: with a replication method that is neither Incremental nor
\* LogBased, get_records raises the unrecognized-method error with nothing
\* yielded, no query made and no change stream opened, and every call of
\* _increment_stream_state raises the same error and leaves the state as it
\* was.
C14_UnrecognizedMethodRejected ==
    ~Recognized
    => /\ pc # "idle"
          => /\ pc = "error"
             /\ raised = UnrecognizedMethodError
             /\ emitted = << >>
             /\ results = << >>
             /\ start_date = None
             /\ cursor = "none"
             /\ ~polled
             /\ state_dict.replication_key_value = bookmark
       /\ \A i \in 1..Len(calls) :
             /\ calls[i].raised = UnrecognizedMethodError
             /\ calls[i].after = calls[i].before
       /\ calls # << >> => state_dict = calls[1].before

C14_Witness ==
    /\ ~Recognized
    /\ pc = "error"
    /\ raised = UnrecognizedMethodError
    /\ Len(calls) >= 1
    /\ state_dict.replication_key_value # None
    /\ collection # {}

\* C17: with a recognized replication method and no replication key, every
\* call of _increment_stream_state raises the missing-key error and leaves
\* the state as it was, for a sorted stream as for an unsorted one.
C17_MissingKeyRejected ==
    (Recognized /\ replication_key = "")
    => /\ \A i \in 1..Len(calls) :
             /\ calls[i].raised = MissingKeyError
             /\ calls[i].after = calls[i].before
       /\ calls # << >> => raised = MissingKeyError /\ state_dict = calls[1].before

C17_Witness ==
    /\ Recognized
    /\ replication_key = ""
    /\ is_sorted
    /\ Len(calls) >= 2
    /\ raised = MissingKeyError
    /\ state_dict.replication_key_value # None
    /\ StrLess(Get(state_dict.replication_key_value), calls[1].candidate)

====
